---- MODULE Spec2Model ----
(***************************************************************************)
(* Model of the NYC taxi pipeline: backend/clean_data.py (cleaning and     *)
(* feature engineering), backend/load_databasi.py (database load),         *)
(* backend/algorithm.py (zone mobility ranking) and backend/api_server.py  *)
(* (read API).                                                             *)
(*                                                                         *)
(* Units.  Money is in cents, distance in hundredths of a mile, time in    *)
(* seconds since 2024-01-01T00:00:00 (a Monday).  The derived columns      *)
(* that the code rounds to two decimals are integers counting hundredths   *)
(* (of a minute, of a mile per hour, of a percent), so 200.01 miles is     *)
(* 20001 and 150.00 mph is 15000.                                          *)
(***************************************************************************)
EXTENDS Integers, Sequences, FiniteSets, TLC

VARIABLES
    pc,             \* position of the clean_data.py script
    raw_files,      \* the raw input files that exist under data/
    raw,            \* rows of data/yellow_tripdata_2024-01.parquet
    zones,          \* rows of data/taxi_zone_lookup.csv
    trips,          \* the DataFrame `trips`
    cleaning_log,   \* the dict `cleaning_log`
    speed_filtered, \* rows dropped by the between(1, 150) selection
    out_parquet,    \* data/cleaned/trips_clean.parquet
    log_file,       \* docs/cleaning_log.json
    applied,        \* the validation passes run so far, when reordered
    entry,          \* algorithm.py: the function called
    rpc,            \* algorithm.py: position in rank_zones / insertion_sort
    db_file,        \* data/nyc_taxi.db: "ok", "absent" or "no_tables"
    db_trips,       \* the rows of its trips table
    db_stats,       \* the rows of its summary_stats table
    zone_list,      \* the list `zones` of rank_zones and insertion_sort
    sort_input,     \* that list as insertion_sort received it
    sort_i,         \* insertion_sort: i
    sort_j,         \* insertion_sort: j
    sort_current,   \* insertion_sort: current
    server,         \* api_server.py: the serving process
    served,         \* requests the process has taken so far
    last_request,   \* the request handled last
    last_response,  \* what its client received
    trips_request,  \* <<the query string>> of the last GET /api/trips
    trips_response, \* <<the JSON body>> answered to it
    lpc,            \* position of the load_databasi.py script
    cleaned_files,  \* the files that exist under data/cleaned/
    cleaned,        \* rows of data/cleaned/trips_clean.parquet
    batch_size,     \* BATCH_SIZE
    to_insert,      \* the DataFrame `trips_to_insert`
    loop_i,         \* i of the insertion loop
    total_inserted, \* total_inserted
    stats,          \* the dict `stats`
    load_runs,      \* runs of the script started so far
    done_runs,      \* runs of the script that reached their end
    call_fn,        \* a function called on its own
    call_arg,       \* its argument
    calls,          \* the locals of each rank_zones invocation in progress
    call_result     \* <<what it returned>>, <<>> before it returns

cleanVars == <<pc, raw_files, raw, zones, trips, cleaning_log, speed_filtered,
               out_parquet, log_file>>
orderVars == <<applied>>
storeVars == <<db_file, db_trips, db_stats>>
rankVars  == <<entry, rpc, zone_list, sort_input, sort_i, sort_j,
               sort_current>>
apiVars   == <<server, served, last_request, last_response>>
listVars  == <<trips_request, trips_response>>
loadVars  == <<lpc, cleaned_files, cleaned, batch_size, to_insert, loop_i,
               total_inserted, stats, load_runs, done_runs>>
calcVars  == <<call_fn, call_arg, call_result>>
concVars  == <<calls>>

vars == <<cleanVars, orderVars, storeVars, rankVars, apiVars, loadVars,
          calcVars, concVars, listVars>>

\* what each program leaves alone
outsideClean == <<orderVars, storeVars, rankVars, apiVars, loadVars,
                  calcVars, concVars, listVars>>
outsideOrder == <<storeVars, rankVars, apiVars, loadVars, calcVars, concVars,
                  listVars>>
outsideRank  == <<cleanVars, orderVars, apiVars, loadVars, calcVars, concVars,
                  listVars>>
outsideApi   == <<cleanVars, orderVars, rankVars, loadVars, calcVars, concVars>>
outsideLoad  == <<cleanVars, orderVars, rankVars, apiVars, calcVars, concVars,
                  listVars>>
outsideCalc  == <<cleanVars, orderVars, storeVars, rankVars, apiVars,
                  loadVars, concVars, listVars>>
outsideConc  == <<cleanVars, orderVars, rankVars, apiVars, loadVars,
                  calcVars, listVars>>

----------------------------------------------------------------------------
(* Missing values and IEEE special values of the float columns.            *)

\* NaN / NaT: a missing value of a numeric or datetime column
NaN == -1000000
\* a raw cell that pd.to_datetime / pd.to_numeric cannot parse
Unparseable == -2000000
\* the results of a float division by zero
PosInf == 2000000000
NegInf == -2000000000
\* a missing value of a string column (after a left merge without a match)
None == "<NA>"

IsNum(x) == x # NaN /\ x # PosInf /\ x # NegInf

\* comparisons of float columns: any comparison with NaN is False
Le(x, y) == x # NaN /\ y # NaN /\ x <= y
Lt(x, y) == x # NaN /\ y # NaN /\ x < y
Gt(x, y) == x # NaN /\ y # NaN /\ x > y

\* a - b on two columns (NaN propagates)
Minus(a, b) == IF a = NaN \/ b = NaN THEN NaN ELSE a - b

\* numpy's round: the nearest integer to a / b (b > 0), halves to the even
RoundHalfEven(a, b) ==
    LET q == a \div b
        r == a % b
    IN  IF 2 * r < b THEN q
        ELSE IF 2 * r > b THEN q + 1
        ELSE IF q % 2 = 0 THEN q ELSE q + 1

\* round(a / b) of a float division, with the IEEE results for b = 0
RoundedQuotient(a, b) ==
    IF a = NaN \/ b = NaN THEN NaN
    ELSE IF b = 0 THEN (IF a > 0 THEN PosInf ELSE IF a < 0 THEN NegInf ELSE NaN)
    ELSE IF b > 0 THEN RoundHalfEven(a, b)
    ELSE RoundHalfEven(-a, -b)

----------------------------------------------------------------------------
(* Rows.  A row carries every column of the final frame; a column the      *)
(* script has not created yet holds NaN (None for the string columns).     *)

Row(v, pu, do, pcnt, dist, pul, dol, fare, tip) ==
    [idx |-> 0, vendor_id |-> v,
     pickup_datetime |-> pu, dropoff_datetime |-> do,
     passenger_count |-> pcnt, trip_distance |-> dist,
     pickup_location_id |-> pul, dropoff_location_id |-> dol,
     fare_amount |-> fare, tip_amount |-> tip,
     trip_duration_mins |-> NaN, avg_speed_mph |-> NaN,
     tip_percentage |-> NaN, hour_of_day |-> NaN,
     time_of_day |-> None, day_of_week |-> None, is_weekend |-> FALSE,
     pickup_borough |-> None, pickup_zone |-> None,
     dropoff_borough |-> None, dropoff_zone |-> None]

\* Monday 08:00 and Monday 08:20
T0 == 8 * 3600
T1 == T0 + 20 * 60

Base == Row(1, T0, T1, 1, 300, 1, 2, 1500, 300)

\* The raw rows the inputs are drawn from: a valid trip and rows on and
\* around every threshold of the cleaning steps.
Catalogue ==
    { Base,
      [Base EXCEPT !.vendor_id = 2],
      [Base EXCEPT !.passenger_count = NaN],
      [Base EXCEPT !.pickup_datetime = Unparseable],
      [Base EXCEPT !.dropoff_datetime = NaN],
      [Base EXCEPT !.pickup_location_id = NaN],
      [Base EXCEPT !.fare_amount = NaN],
      [Base EXCEPT !.trip_distance = NaN],
      [Base EXCEPT !.fare_amount = -500],
      [Base EXCEPT !.fare_amount = 0],
      [Base EXCEPT !.fare_amount = 100000],
      [Base EXCEPT !.fare_amount = 100001],
      [Base EXCEPT !.trip_distance = 0],
      [Base EXCEPT !.trip_distance = 20000, !.dropoff_datetime = T0 + 7200],
      [Base EXCEPT !.trip_distance = 20001, !.dropoff_datetime = T0 + 7200],
      [Base EXCEPT !.trip_distance = 20001, !.fare_amount = 100001],
      [Base EXCEPT !.passenger_count = 0],
      [Base EXCEPT !.passenger_count = 6],
      [Base EXCEPT !.passenger_count = 7],
      [Base EXCEPT !.dropoff_datetime = T0],
      [Base EXCEPT !.dropoff_datetime = T0 - 600],
      [Base EXCEPT !.dropoff_datetime = T0 + 86400, !.trip_distance = 3000],
      [Base EXCEPT !.dropoff_datetime = T0 + 86401, !.trip_distance = 3000],
      [Base EXCEPT !.dropoff_datetime = T0 + 59, !.trip_distance = 100],
      [Base EXCEPT !.dropoff_datetime = T0 + 60, !.trip_distance = 250],
      [Base EXCEPT !.dropoff_datetime = T0 + 60, !.trip_distance = 251],
      [Base EXCEPT !.dropoff_datetime = T0 + 3600, !.trip_distance = 100],
      [Base EXCEPT !.dropoff_datetime = T0 + 3600, !.trip_distance = 99],
      [Base EXCEPT !.tip_amount = NaN],
      [Base EXCEPT !.tip_amount = -100],
      [Base EXCEPT !.tip_amount = 2000],
      [Base EXCEPT !.fare_amount = -500, !.trip_distance = 0,
                   !.passenger_count = 0],
      [Base EXCEPT !.pickup_datetime = NaN, !.fare_amount = -500],
      [Base EXCEPT !.pickup_datetime = 516600, !.dropoff_datetime = 517800,
                   !.pickup_location_id = 3],
      [Base EXCEPT !.pickup_datetime = 14400, !.dropoff_datetime = 15600,
                   !.dropoff_location_id = 3] }

\* A few of them, for the longer input files: a valid trip, the same trip
\* with the passenger count missing, a trip matching three predicates, one
\* with a missing pickup time and one driven at under 1 mph.
CoreCatalogue ==
    { Base,
      [Base EXCEPT !.passenger_count = NaN],
      [Base EXCEPT !.fare_amount = -500, !.trip_distance = 0,
                   !.passenger_count = 0],
      [Base EXCEPT !.pickup_datetime = NaN, !.fare_amount = -500],
      [Base EXCEPT !.dropoff_datetime = T0 + 3600, !.trip_distance = 99] }

\* the largest number of raw rows of an input file drawn from Catalogue,
\* and of one drawn from CoreCatalogue
MaxTrips == 2
MaxCoreTrips == 4

RawInputs ==
    UNION ({ [1..n -> Catalogue] : n \in 0..MaxTrips }
           \cup { [1..n -> CoreCatalogue] : n \in 0..MaxCoreTrips })

\* taxi_zone_lookup.csv: LocationID is a key (zones.location_id is the
\* PRIMARY KEY of the table the lookup is loaded into)
ZoneLookup ==
    << [location_id |-> 1, borough |-> "Manhattan", zone |-> "Midtown"],
       [location_id |-> 2, borough |-> "Queens",    zone |-> "JFK Airport"] >>

\* the elements of a sequence
Range(seq) == { seq[i] : i \in 1..Len(seq) }

----------------------------------------------------------------------------
(* DataFrame helpers.                                                      *)

\* df[keep]: the rows whose entry in the boolean Series `keep` is True
RECURSIVE Select(_, _)
Select(df, keep) ==
    IF df = <<>> THEN <<>>
    ELSE IF Head(keep) THEN <<Head(df)>> \o Select(Tail(df), Tail(keep))
         ELSE Select(Tail(df), Tail(keep))

\* int(mask.sum())
RECURSIVE MaskSum(_)
MaskSum(mask) ==
    IF mask = <<>> THEN 0
    ELSE (IF Head(mask) THEN 1 ELSE 0) + MaskSum(Tail(mask))

\* two rows agree on every column (the index is not a column)
SameColumns(r, s) == [r EXCEPT !.idx = 0] = [s EXCEPT !.idx = 0]

\* pd.read_parquet: the rows of the file under a RangeIndex
read_parquet(file) == [i \in 1..Len(file) |-> [file[i] EXCEPT !.idx = i - 1]]

\* errors='coerce': a cell that does not parse becomes NaT / NaN
Coerce(x) == IF x = Unparseable THEN NaN ELSE x

FixRow(r) ==
    [r EXCEPT !.pickup_datetime = Coerce(@), !.dropoff_datetime = Coerce(@),
              !.fare_amount = Coerce(@), !.trip_distance = Coerce(@),
              !.passenger_count = Coerce(@), !.tip_amount = Coerce(@),
              !.pickup_location_id = Coerce(@),
              !.dropoff_location_id = Coerce(@)]

\* DataFrame.drop_duplicates(): keeps the first of the rows equal on every
\* column (missing values compare equal)
drop_duplicates(df) ==
    Select(df, [i \in 1..Len(df) |->
                   \A j \in 1..(i - 1) : ~SameColumns(df[j], df[i])])

\* the subset of dropna at step 4
MissingCritical(r) ==
    \/ r.pickup_datetime = NaN
    \/ r.dropoff_datetime = NaN
    \/ r.pickup_location_id = NaN
    \/ r.dropoff_location_id = NaN
    \/ r.fare_amount = NaN
    \/ r.trip_distance = NaN

dropna(df) == Select(df, [i \in 1..Len(df) |-> ~MissingCritical(df[i])])

\* trips['passenger_count'].fillna(1)
fillna_passenger(df) ==
    [i \in 1..Len(df) |->
        [df[i] EXCEPT !.passenger_count = IF @ = NaN THEN 1 ELSE @]]

\* the keys of cleaning_log["removed"]
L_dup      == "duplicates"
L_missing  == "missing_critical"
L_fare0    == "fare is zero or negative"
L_dist0    == "distance is zero or negative"
L_dist200  == "distance over 200 miles (impossible in NYC)"
L_fare1000 == "fare over $1000 (suspicious)"
L_pass     == "passenger count invalid (must be 1-6)"
L_dropoff  == "dropoff time is before or same as pickup"
L_24h      == "trip longer than 24 hours"
L_1min     == "trip shorter than 1 minute"

\* log["removed"][label] = count
LogRemoved(log, label, count) ==
    [log EXCEPT !.removed = (label :> count) @@ @]

\* step 4: fillna(1) on passenger_count, dropna on the critical columns,
\* and the count logged under 'missing_critical'
remove_missing(df, log) ==
    LET filled == fillna_passenger(df)
        before == Len(filled)
        after  == dropna(filled)
    IN  [df |-> after, log |-> LogRemoved(log, L_missing, before - Len(after))]

\* remove_bad whose result the caller drops: the count is logged and the
\* frame is left as it was
remove_bad_unassigned(df, mask, label, log) ==
    [df  |-> df,
     log |-> LogRemoved(log, label, MaskSum(mask))]

\* remove_bad(df, mask, label, log): the frame it returns and the log it
\* leaves behind
remove_bad(df, mask, label, log) ==
    [df  |-> Select(df, [i \in 1..Len(df) |-> ~mask[i]]),
     log |-> LogRemoved(log, label, MaskSum(mask))]

\* (dropoff - pickup).dt.total_seconds()
Duration(r) == Minus(r.dropoff_datetime, r.pickup_datetime)

\* the boolean Series passed to remove_bad, one per call
FareNotPositive(r)  == Le(r.fare_amount, 0)
DistNotPositive(r)  == Le(r.trip_distance, 0)
\* the bound written >=
DistOver200_inclusive(r) == Le(20000, r.trip_distance)
DistOver200(r)      == Gt(r.trip_distance, 20000)
FareOver1000(r)     == Gt(r.fare_amount, 100000)
\* the passenger test written as ~between(1, 6), which is True for NaN
PassengerInvalid_not_between(r) ==
    ~(Le(1, r.passenger_count) /\ Le(r.passenger_count, 6))
PassengerInvalid(r) == Le(r.passenger_count, 0) \/ Gt(r.passenger_count, 6)
DropoffNotAfter(r)  == Le(r.dropoff_datetime, r.pickup_datetime)
Over24Hours(r)      == Gt(Duration(r), 86400)
UnderOneMinute(r)   == Lt(Duration(r), 60)

\* the mask of one remove_bad call over the current frame
Mask(label, df) ==
    [i \in 1..Len(df) |->
        CASE label = L_fare0    -> FareNotPositive(df[i])
          [] label = L_dist0    -> DistNotPositive(df[i])
          [] label = L_dist200  -> DistOver200(df[i])
          [] label = L_fare1000 -> FareOver1000(df[i])
          [] label = L_pass     -> PassengerInvalid(df[i])
          [] label = L_dropoff  -> DropoffNotAfter(df[i])
          [] label = L_24h      -> Over24Hours(df[i])
          [] label = L_1min     -> UnderOneMinute(df[i])]

----------------------------------------------------------------------------
(* Feature engineering.                                                    *)

\* (total_seconds() / 60).round(2), in hundredths of a minute
TripDurationMins(r) == RoundedQuotient(100 * Duration(r), 60)

\* (trip_distance / (trip_duration_mins / 60)).round(2), in hundredths of
\* a mile per hour: (d/100) / ((m/100)/60) = 60 d / m
AvgSpeedMph(r) ==
    IF r.trip_distance = NaN \/ r.trip_duration_mins = NaN THEN NaN
    ELSE RoundedQuotient(6000 * r.trip_distance, r.trip_duration_mins)

\* Series.between(1, 150): inclusive on both ends, False for NaN
SpeedBetween(s) == IsNum(s) /\ 100 <= s /\ s <= 15000

\* the tip percentage without .clip(0, 100)
TipPercentage_noclip(r) ==
    LET q == IF r.tip_amount = NaN \/ r.fare_amount = NaN THEN NaN
             ELSE RoundedQuotient(10000 * r.tip_amount, r.fare_amount)
    IN  IF q = NaN THEN 0 ELSE q

\* the tip percentage without .fillna(0)
TipPercentage_nofill(r) ==
    LET q == IF r.tip_amount = NaN \/ r.fare_amount = NaN THEN NaN
             ELSE RoundedQuotient(10000 * r.tip_amount, r.fare_amount)
    IN  IF q = NaN THEN NaN
        ELSE IF q = NegInf \/ q < 0 THEN 0
        ELSE IF q = PosInf \/ q > 10000 THEN 10000
        ELSE q

\* ((tip / fare) * 100).round(2).clip(0, 100).fillna(0), in hundredths of
\* a percent
TipPercentage(r) ==
    LET q == IF r.tip_amount = NaN \/ r.fare_amount = NaN THEN NaN
             ELSE RoundedQuotient(10000 * r.tip_amount, r.fare_amount)
    IN  IF q = NaN THEN 0
        ELSE IF q = NegInf \/ q < 0 THEN 0
        ELSE IF q = PosInf \/ q > 10000 THEN 10000
        ELSE q

\* the upper ends of the periods written <=
get_time_of_day_inclusive(hour) ==
    IF 5 <= hour /\ hour <= 9 THEN "Morning Rush"
    ELSE IF 9 <= hour /\ hour <= 12 THEN "Mid Morning"
    ELSE IF 12 <= hour /\ hour <= 17 THEN "Afternoon"
    ELSE IF 17 <= hour /\ hour <= 20 THEN "Evening Rush"
    ELSE IF 20 <= hour /\ hour <= 24 THEN "Night"
    ELSE "Late Night"

get_time_of_day(hour) ==
    IF 5 <= hour /\ hour < 9 THEN "Morning Rush"
    ELSE IF 9 <= hour /\ hour < 12 THEN "Mid Morning"
    ELSE IF 12 <= hour /\ hour < 17 THEN "Afternoon"
    ELSE IF 17 <= hour /\ hour < 20 THEN "Evening Rush"
    ELSE IF 20 <= hour /\ hour < 24 THEN "Night"
    ELSE "Late Night"

\* pickup_datetime.dt.hour
HourOf(t) == (t \div 3600) % 24

\* pickup_datetime.dt.dayofweek (Monday = 0); the epoch is a Monday
DayOfWeek(t) == (t \div 86400) % 7

DayName(d) ==
    <<"Monday", "Tuesday", "Wednesday", "Thursday", "Friday",
      "Saturday", "Sunday">>[d + 1]

----------------------------------------------------------------------------
(* Zone names: DataFrame.merge(how='left'), one output row per match of    *)
(* the left row's key in the lookup, one row of missing names when there   *)
(* is none; the result has a fresh RangeIndex.                             *)

\* the lookup joined on its index (right_index=True) instead of LocationID
Matches_right_index(key, lookup) ==
    IF key + 1 \in 1..Len(lookup) THEN << lookup[key + 1] >> ELSE <<>>

Matches(key, lookup) ==
    Select(lookup, [k \in 1..Len(lookup) |-> lookup[k].location_id = key])

RECURSIVE MergeRows(_, _, _)
MergeRows(df, lookup, side) ==
    IF df = <<>> THEN <<>>
    ELSE LET r   == Head(df)
             key == IF side = "pickup" THEN r.pickup_location_id
                    ELSE r.dropoff_location_id
             m   == Matches(key, lookup)
             With(b, z) ==
                 IF side = "pickup"
                 THEN [r EXCEPT !.pickup_borough = b, !.pickup_zone = z]
                 ELSE [r EXCEPT !.dropoff_borough = b, !.dropoff_zone = z]
         IN  (IF m = <<>> THEN << With(None, None) >>
              ELSE [k \in 1..Len(m) |-> With(m[k].borough, m[k].zone)])
             \o MergeRows(Tail(df), lookup, side)

Reindex(df) == [i \in 1..Len(df) |-> [df[i] EXCEPT !.idx = i - 1]]

\* merge without how='left' (pandas' default, an inner join): a left row
\* without a match is dropped
merge_inner(df, lookup, side) ==
    LET key(r) == IF side = "pickup" THEN r.pickup_location_id
                  ELSE r.dropoff_location_id
    IN  Reindex(MergeRows(
            Select(df, [i \in 1..Len(df) |->
                           Matches(key(df[i]), lookup) # <<>>]),
            lookup, side))

merge_left(df, lookup, side) == Reindex(MergeRows(df, lookup, side))

----------------------------------------------------------------------------
(* clean_data.py, top to bottom.                                           *)

Steps5 == <<L_fare0, L_dist0, L_dist200, L_fare1000, L_pass, L_dropoff,
            L_24h, L_1min>>

\* the three files of lines 24-28
RawFiles == {"yellow_tripdata_2024-01.parquet", "taxi_zone_lookup.csv",
             "taxi_zones.geojson"}

InitClean ==
    /\ pc = "check"
    /\ raw_files \in SUBSET RawFiles
    /\ raw \in RawInputs
    /\ zones = ZoneLookup
    /\ trips = <<>>
    /\ cleaning_log = [original_rows |-> NaN, removed |-> <<>>,
                       final_rows |-> NaN, percentage_kept |-> NaN]
    /\ speed_filtered = 0
    /\ out_parquet = <<>>
    /\ log_file = <<>>

\* lines 30-35: a missing file is reported and the loop goes on to the next
\* file; the script does not stop here
CheckFiles ==
    /\ pc = "check"
    /\ UNCHANGED outsideClean
    /\ pc' = "load"
    /\ UNCHANGED <<raw_files, raw, zones, trips, cleaning_log,
                   speed_filtered, out_parquet, log_file>>

\* lines 39-56 and 83-87: pd.read_parquet and pd.read_csv raise
\* FileNotFoundError for a missing file, which ends the script; the open()
\* of the GeoJSON file is inside try ... except Exception, which prints a
\* warning and lets the script go on
LoadTrips ==
    /\ pc = "load"
    /\ UNCHANGED outsideClean
    /\ IF "yellow_tripdata_2024-01.parquet" \notin raw_files
       THEN /\ pc' = "aborted"
            /\ UNCHANGED <<trips, cleaning_log>>
       ELSE IF "taxi_zone_lookup.csv" \notin raw_files
       THEN /\ trips' = read_parquet(raw)
            /\ pc' = "aborted"
            /\ UNCHANGED cleaning_log
       ELSE /\ trips' = read_parquet(raw)
            /\ cleaning_log' = [cleaning_log EXCEPT
                                    !.original_rows = Len(raw)]
            /\ pc' = "types"
    /\ UNCHANGED <<raw_files, raw, zones, speed_filtered, out_parquet,
                   log_file>>

\* step 2, lines 118-125
FixTypes ==
    /\ pc = "types"
    /\ UNCHANGED outsideClean
    /\ trips' = [i \in 1..Len(trips) |-> FixRow(trips[i])]
    /\ pc' = "dedup"
    /\ UNCHANGED <<raw_files, raw, zones, cleaning_log, speed_filtered, out_parquet,
                   log_file>>

\* step 3, lines 134-137
RemoveDuplicates ==
    /\ pc = "dedup"
    /\ UNCHANGED outsideClean
    /\ LET before == Len(trips)
           after  == drop_duplicates(trips)
       IN  /\ trips' = after
           /\ cleaning_log' = LogRemoved(cleaning_log, L_dup,
                                         before - Len(after))
    /\ pc' = "missing"
    /\ UNCHANGED <<raw_files, raw, zones, speed_filtered, out_parquet, log_file>>

\* step 4, lines 144-153
RemoveMissing ==
    /\ pc = "missing"
    /\ UNCHANGED outsideClean
    /\ LET res == remove_missing(trips, cleaning_log)
       IN  /\ trips' = res.df
           /\ cleaning_log' = res.log
    /\ pc' = L_fare0
    /\ UNCHANGED <<raw_files, raw, zones, speed_filtered, out_parquet, log_file>>

\* step 5: the remove_bad call for `label`, then on to `next`
RemoveBadStep(label, next) ==
    /\ pc = label
    /\ UNCHANGED outsideClean
    /\ LET res == remove_bad(trips, Mask(label, trips), label, cleaning_log)
       IN  /\ trips' = res.df
           /\ cleaning_log' = res.log
    /\ pc' = next
    /\ UNCHANGED <<raw_files, raw, zones, speed_filtered, out_parquet, log_file>>

RemoveFareNotPositive == RemoveBadStep(L_fare0, L_dist0)
RemoveDistNotPositive == RemoveBadStep(L_dist0, L_dist200)
RemoveDistOver200     == RemoveBadStep(L_dist200, L_fare1000)
RemoveFareOver1000    == RemoveBadStep(L_fare1000, L_pass)
RemovePassenger       == RemoveBadStep(L_pass, L_dropoff)
RemoveDropoffNotAfter == RemoveBadStep(L_dropoff, L_24h)
RemoveOver24Hours     == RemoveBadStep(L_24h, L_1min)
RemoveUnderOneMinute  == RemoveBadStep(L_1min, "duration")

\* lines 210-213
DeriveDuration ==
    /\ pc = "duration"
    /\ UNCHANGED outsideClean
    /\ trips' = [i \in 1..Len(trips) |->
                    [trips[i] EXCEPT !.trip_duration_mins =
                                         TripDurationMins(trips[i])]]
    /\ pc' = "speed"
    /\ UNCHANGED <<raw_files, raw, zones, cleaning_log, speed_filtered, out_parquet,
                   log_file>>

\* lines 218-222
DeriveSpeed ==
    /\ pc = "speed"
    /\ UNCHANGED outsideClean
    /\ LET with == [i \in 1..Len(trips) |->
                       [trips[i] EXCEPT !.avg_speed_mph =
                                            AvgSpeedMph(trips[i])]]
           kept == Select(with, [i \in 1..Len(with) |->
                                    SpeedBetween(with[i].avg_speed_mph)])
       IN  /\ trips' = kept
           /\ speed_filtered' = Len(with) - Len(kept)
    /\ pc' = "tip"
    /\ UNCHANGED <<raw_files, raw, zones, cleaning_log, out_parquet, log_file>>

\* lines 227-229
DeriveTip ==
    /\ pc = "tip"
    /\ UNCHANGED outsideClean
    /\ trips' = [i \in 1..Len(trips) |->
                    [trips[i] EXCEPT !.tip_percentage =
                                         TipPercentage(trips[i])]]
    /\ pc' = "time"
    /\ UNCHANGED <<raw_files, raw, zones, cleaning_log, speed_filtered, out_parquet,
                   log_file>>

\* lines 243-250
DeriveTime ==
    /\ pc = "time"
    /\ UNCHANGED outsideClean
    /\ trips' = [i \in 1..Len(trips) |->
                    LET t == trips[i].pickup_datetime
                    IN  [trips[i] EXCEPT
                            !.hour_of_day = HourOf(t),
                            !.time_of_day = get_time_of_day(HourOf(t)),
                            !.day_of_week = DayName(DayOfWeek(t)),
                            !.is_weekend  = DayOfWeek(t) \in {5, 6}]]
    /\ pc' = "merge_pickup"
    /\ UNCHANGED <<raw_files, raw, zones, cleaning_log, speed_filtered, out_parquet,
                   log_file>>

\* lines 268-276
MergePickup ==
    /\ pc = "merge_pickup"
    /\ UNCHANGED outsideClean
    /\ trips' = merge_left(trips, zones, "pickup")
    /\ pc' = "merge_dropoff"
    /\ UNCHANGED <<raw_files, raw, zones, cleaning_log, speed_filtered, out_parquet,
                   log_file>>

\* lines 279-287
MergeDropoff ==
    /\ pc = "merge_dropoff"
    /\ UNCHANGED outsideClean
    /\ trips' = merge_left(trips, zones, "dropoff")
    /\ pc' = "save"
    /\ UNCHANGED <<raw_files, raw, zones, cleaning_log, speed_filtered, out_parquet,
                   log_file>>

\* lines 299-311
SaveData ==
    /\ pc = "save"
    /\ UNCHANGED outsideClean
    /\ out_parquet' = <<trips>>
    /\ pc' = "log"
    /\ UNCHANGED <<raw_files, raw, zones, trips, cleaning_log, speed_filtered, log_file>>

\* lines 314-321; final_count / original_count raises ZeroDivisionError
\* for an empty input file, and then no log is written
SaveLog ==
    /\ pc = "log"
    /\ UNCHANGED outsideClean
    /\ LET final_count    == Len(trips)
           original_count == cleaning_log.original_rows
       IN  IF original_count = 0
           THEN /\ cleaning_log' = [cleaning_log EXCEPT
                                       !.final_rows = final_count]
                /\ pc' = "crashed"
                /\ UNCHANGED log_file
           ELSE /\ cleaning_log' =
                       [cleaning_log EXCEPT
                           !.final_rows = final_count,
                           !.percentage_kept =
                               RoundHalfEven(10000 * final_count,
                                             original_count)]
                /\ log_file' = <<cleaning_log'>>
                /\ pc' = "done"
    /\ UNCHANGED <<raw_files, raw, zones, trips, speed_filtered, out_parquet>>

NextClean ==
    \/ CheckFiles
    \/ LoadTrips
    \/ FixTypes
    \/ RemoveDuplicates
    \/ RemoveMissing
    \/ RemoveFareNotPositive
    \/ RemoveDistNotPositive
    \/ RemoveDistOver200
    \/ RemoveFareOver1000
    \/ RemovePassenger
    \/ RemoveDropoffNotAfter
    \/ RemoveOver24Hours
    \/ RemoveUnderOneMinute
    \/ DeriveDuration
    \/ DeriveSpeed
    \/ DeriveTip
    \/ DeriveTime
    \/ MergePickup
    \/ MergeDropoff
    \/ SaveData
    \/ SaveLog

----------------------------------------------------------------------------
(* The validation passes of steps 4 and 5 run in another order: the same   *)
(* calls on the same frame, the order chosen freely except that the two    *)
(* duration passes wait for the passes that guarantee present timestamps,  *)
(* a positive distance and dropoff after pickup.                           *)

AllPasses == {L_missing} \cup { Steps5[k] : k \in 1..Len(Steps5) }

\* the largest number of raw rows of a reordered run, drawn from Catalogue
\* and from CoreCatalogue
MaxOrderTrips == 1
MaxOrderCoreTrips == 2

OrderInputs ==
    UNION ({ [1..n -> Catalogue] : n \in 0..MaxOrderTrips }
           \cup { [1..n -> CoreCatalogue] : n \in 0..MaxOrderCoreTrips })

\* the log as step 3 leaves it
LogAfterDedup(file) ==
    LET loaded == [i \in 1..Len(file) |-> FixRow(read_parquet(file)[i])]
    IN  [original_rows |-> Len(file),
         removed |-> (L_dup :> (Len(file) - Len(drop_duplicates(loaded)))),
         final_rows |-> NaN, percentage_kept |-> NaN]

MayRun(label, done) ==
    /\ label \notin done
    /\ label \in {L_24h, L_1min} => {L_missing, L_dist0, L_dropoff} \subseteq done

OrderIdle == applied = {}

InitOrder ==
    /\ pc = "reorder"
    /\ raw_files = RawFiles
    /\ raw \in OrderInputs
    /\ zones = ZoneLookup
    /\ trips = drop_duplicates(
                   [i \in 1..Len(raw) |-> FixRow(read_parquet(raw)[i])])
    /\ cleaning_log = LogAfterDedup(raw)
    /\ speed_filtered = 0
    /\ out_parquet = <<>>
    /\ log_file = <<>>
    /\ applied = {}

RunPass(label) ==
    /\ pc = "reorder"
    /\ UNCHANGED outsideOrder
    /\ MayRun(label, applied)
    /\ LET res == IF label = L_missing
                  THEN remove_missing(trips, cleaning_log)
                  ELSE remove_bad(trips, Mask(label, trips), label,
                                  cleaning_log)
       IN  /\ trips' = res.df
           /\ cleaning_log' = res.log
    /\ applied' = applied \cup {label}
    /\ UNCHANGED <<pc, raw_files, raw, zones, speed_filtered, out_parquet, log_file>>

NextOrder == \E label \in AllPasses : RunPass(label)

\* the frame and log the script's own order produces from the same input
RECURSIVE RunInOrder(_, _, _)
RunInOrder(df, log, labels) ==
    IF labels = <<>> THEN [df |-> df, log |-> log]
    ELSE LET res == remove_bad(df, Mask(Head(labels), df), Head(labels), log)
         IN  RunInOrder(res.df, res.log, Tail(labels))

ScriptOrder(file) ==
    LET loaded == drop_duplicates(
                      [i \in 1..Len(file) |-> FixRow(read_parquet(file)[i])])
        m      == remove_missing(loaded, LogAfterDedup(file))
    IN  RunInOrder(m.df, m.log, Steps5)

----------------------------------------------------------------------------
(* algorithm.py: the zone mobility ranking.  avg_fare, avg_distance and    *)
(* score are in hundredths.                                                *)

\* a dict without the key
NoKey == -3000000
\* the value None
NoneValue == -4000000
\* a str value; Str(a) < Str(b) as the strings compare
StrBase == 5000000
Str(k) == StrBase + k
IsStr(x) == x >= StrBase
IsNumber(x) == x # NoKey /\ x # NoneValue /\ ~IsStr(x)

\* the pickup zones of the store, in the order GROUP BY pickup_zone lists
\* them, and the borough of each
ZoneNames == <<"Astoria", "Harlem", "Midtown", "SoHo">>
BoroughOf(z) == IF z = "Astoria" THEN "Queens" ELSE "Manhattan"

TripRow(z, fare, dist) ==
    [pickup_zone |-> z,
     pickup_borough |-> IF z = None THEN None ELSE BoroughOf(z),
     fare_amount |-> fare, trip_distance |-> dist]

\* the rows of the trips table the stores are drawn from
StoreRows ==
    { TripRow(z, f[1], f[2]) :
        z \in {None} \cup { ZoneNames[k] : k \in 1..Len(ZoneNames) },
        f \in {<<1000, 500>>, <<2000, 300>>} }

\* the largest number of rows of the trips table
MaxStoreTrips == 3

Stores == UNION { [1..n -> StoreRows] : n \in 0..MaxStoreTrips }

RECURSIVE SumField(_, _)
SumField(rows, f) ==
    IF rows = <<>> THEN 0 ELSE Head(rows)[f] + SumField(Tail(rows), f)

\* SELECT pickup_zone, pickup_borough, COUNT(*), AVG(fare_amount),
\* AVG(trip_distance) FROM trips WHERE pickup_zone IS NOT NULL
\* GROUP BY pickup_zone, and the dicts built from its rows
RECURSIVE GroupRows(_, _)
GroupRows(rows, names) ==
    IF names = <<>> THEN <<>>
    ELSE LET g == Select(rows, [k \in 1..Len(rows) |->
                                   rows[k].pickup_zone = Head(names)])
         IN  (IF g = <<>> THEN <<>>
              ELSE << [zone |-> Head(names),
                       borough |-> g[1].pickup_borough,
                       trip_count |-> Len(g),
                       avg_fare |-> RoundHalfEven(SumField(g, "fare_amount"),
                                                  Len(g)),
                       avg_distance |->
                           RoundHalfEven(SumField(g, "trip_distance"), Len(g)),
                       score |-> NoKey, rank |-> NoKey] >>)
             \o GroupRows(rows, Tail(names))

get_zone_stats(rows) == GroupRows(rows, ZoneNames)

\* the weights of avg_fare and avg_distance exchanged
mobility_score_swapped(zone) ==
    RoundHalfEven(zone.trip_count + 20 * zone.avg_fare
                  + 5 * zone.avg_distance, 10)

\* round(trip_count / 1000 + avg_fare * 0.5 + avg_distance * 2, 2):
\* in hundredths, trip_count / 10 + avg_fare / 2 + 2 avg_distance
mobility_score(zone) ==
    RoundHalfEven(zone.trip_count + 5 * zone.avg_fare
                  + 20 * zone.avg_distance, 10)

\* zones[j]["score"] < current["score"]: a KeyError for a missing key, a
\* TypeError for None and for a str against a number
CompareFaults(a, b) ==
    \/ a = NoKey \/ b = NoKey
    \/ a = NoneValue \/ b = NoneValue
    \/ IsStr(a) # IsStr(b)

\* the comparison written <=
ScoreLess_or_equal(a, b) == a <= b

ScoreLess(a, b) == a < b

\* zones[j + 1] = current written as zones[j] = current (index -1 is the
\* last element)
Place_at_j(zs, jj, cur) ==
    [zs EXCEPT ![IF jj = -1 THEN Len(zs) ELSE jj + 1] = cur]

\* zones[j + 1] = current (the list is indexed from 0)
Place(zs, jj, cur) == [zs EXCEPT ![jj + 2] = cur]

\* competition ranking: zones with equal scores share a rank
AssignRanks_shared(zs) ==
    [k \in 1..Len(zs) |->
        [zs[k] EXCEPT !.rank =
            1 + Cardinality({ m \in 1..Len(zs) : zs[m].score > zs[k].score })]]

\* for i, z in enumerate(sorted_zones): z["rank"] = i + 1
AssignRanks(zs) == [k \in 1..Len(zs) |-> [zs[k] EXCEPT !.rank = (k - 1) + 1]]

\* the values a "score" may hold when insertion_sort is called directly
ScoreValues == {1000, 2000, NoKey, NoneValue, Str(1), Str(2)}

\* the largest list handed to insertion_sort directly
MaxZones == 3

\* a list of n zone dicts; the k-th is named after its position
ZoneLists ==
    UNION { { [k \in 1..n |->
                 [zone |-> ZoneNames[k], borough |-> BoroughOf(ZoneNames[k]),
                  trip_count |-> 0, avg_fare |-> 0, avg_distance |-> 0,
                  score |-> sc[k], rank |-> NoKey]] :
              sc \in [1..n -> ScoreValues] } :
            n \in 0..(IF MaxZones <= Len(ZoneNames) THEN MaxZones
                      ELSE Len(ZoneNames)) }

RankIdle ==
    /\ entry = "none"
    /\ rpc = "off"
    /\ db_file = "ok"
    /\ db_trips = <<>>
    /\ db_stats = <<>>
    /\ zone_list = <<>>
    /\ sort_input = <<>>
    /\ sort_i = 0
    /\ sort_j = 0
    /\ sort_current = NoKey

InitRank ==
    /\ db_stats = <<>>
    /\ sort_i = 0
    /\ sort_j = 0
    /\ sort_current = NoKey
    /\ sort_input = <<>>
    /\ \/ /\ entry = "rank_zones"
          /\ rpc = "get_zone_stats"
          /\ db_file \in {"ok", "absent", "no_tables"}
          /\ db_trips \in (IF db_file = "ok" THEN Stores ELSE {<<>>})
          /\ zone_list = <<>>
       \/ /\ entry = "insertion_sort"
          /\ rpc = "sort"
          /\ db_file = "ok"
          /\ db_trips = <<>>
          /\ zone_list \in ZoneLists

\* rank_zones step 1, lines 158 and 28-69: sys.exit(1) when the database
\* file is absent or the query raises sqlite3.Error
GetZoneStats ==
    /\ rpc = "get_zone_stats"
    /\ UNCHANGED <<storeVars, outsideRank>>
    /\ IF db_file = "ok"
       THEN /\ zone_list' = get_zone_stats(db_trips)
            /\ rpc' = "scores"
       ELSE /\ rpc' = "exit"
            /\ UNCHANGED zone_list
    /\ UNCHANGED <<entry, sort_input, sort_i, sort_j, sort_current>>

\* rank_zones step 2, lines 162-163
ComputeScores ==
    /\ rpc = "scores"
    /\ UNCHANGED <<storeVars, outsideRank>>
    /\ zone_list' = [k \in 1..Len(zone_list) |->
                        [zone_list[k] EXCEPT !.score =
                                                 mobility_score(zone_list[k])]]
    /\ rpc' = "sort"
    /\ UNCHANGED <<entry, sort_input, sort_i, sort_j, sort_current>>

\* insertion_sort is entered, lines 124-126
SortEnter ==
    /\ rpc = "sort"
    /\ UNCHANGED <<storeVars, outsideRank>>
    /\ sort_input' = zone_list
    /\ sort_i' = 1
    /\ rpc' = "for"
    /\ UNCHANGED <<entry, zone_list, sort_j, sort_current>>

\* for i in range(1, n): current = zones[i]; j = i - 1, or the return
SortFor ==
    /\ rpc = "for"
    /\ UNCHANGED <<storeVars, outsideRank>>
    /\ IF sort_i < Len(zone_list)
       THEN /\ sort_current' = zone_list[sort_i + 1]
            /\ sort_j' = sort_i - 1
            /\ rpc' = "while"
       ELSE /\ rpc' = IF entry = "rank_zones" THEN "ranks" ELSE "returned"
            /\ UNCHANGED <<sort_j, sort_current>>
    /\ UNCHANGED <<entry, zone_list, sort_input, sort_i>>

\* while j >= 0 and zones[j]["score"] < current["score"]:
\*     zones[j + 1] = zones[j]; j -= 1
SortWhile ==
    /\ rpc = "while"
    /\ UNCHANGED <<storeVars, outsideRank>>
    /\ IF sort_j < 0
       THEN /\ rpc' = "place"
            /\ UNCHANGED <<zone_list, sort_j>>
       ELSE IF CompareFaults(zone_list[sort_j + 1].score, sort_current.score)
       THEN /\ rpc' = "fault"
            /\ UNCHANGED <<zone_list, sort_j>>
       ELSE IF ScoreLess(zone_list[sort_j + 1].score, sort_current.score)
       THEN /\ zone_list' = [zone_list EXCEPT ![sort_j + 2] = zone_list[sort_j + 1]]
            /\ sort_j' = sort_j - 1
            /\ rpc' = "while"
       ELSE /\ rpc' = "place"
            /\ UNCHANGED <<zone_list, sort_j>>
    /\ UNCHANGED <<entry, sort_input, sort_i, sort_current>>

\* zones[j + 1] = current, and the next i
SortPlace ==
    /\ rpc = "place"
    /\ UNCHANGED <<storeVars, outsideRank>>
    /\ zone_list' = Place(zone_list, sort_j, sort_current)
    /\ sort_i' = sort_i + 1
    /\ rpc' = "for"
    /\ UNCHANGED <<entry, sort_input, sort_j, sort_current>>

\* rank_zones step 4, lines 174-179
RankAndReturn ==
    /\ rpc = "ranks"
    /\ UNCHANGED <<storeVars, outsideRank>>
    /\ zone_list' = AssignRanks(zone_list)
    /\ rpc' = "returned"
    /\ UNCHANGED <<entry, sort_input, sort_i, sort_j, sort_current>>

NextRank ==
    \/ GetZoneStats
    \/ ComputeScores
    \/ SortEnter
    \/ SortFor
    \/ SortWhile
    \/ SortPlace
    \/ RankAndReturn

\* clean_data.py is not running
CleanIdle ==
    /\ pc = "off"
    /\ raw_files = RawFiles
    /\ raw = <<>>
    /\ zones = ZoneLookup
    /\ trips = <<>>
    /\ cleaning_log = [original_rows |-> NaN, removed |-> <<>>,
                       final_rows |-> NaN, percentage_kept |-> NaN]
    /\ speed_filtered = 0
    /\ out_parquet = <<>>
    /\ log_file = <<>>

----------------------------------------------------------------------------
(* api_server.py: the serving process, one request at a time.  A handler   *)
(* answers "success" ({success: true, data}) or "failure" ({success:       *)
(* false, error}, status 500); "aborted" is a request whose handler was    *)
(* left by an exception that is no Exception, so that no such answer was   *)
(* sent.                                                                   *)

\* the requests the process takes before the model stops it
MaxRequests == 3

\* routes that run one query and take no number from the URL
QueryRoutes == {"/api/stats", "/api/boroughs", "/api/trips/by-borough",
                "/api/trips/by-hour", "/api/trips/by-day", "/api/zones"}

InitApi ==
    /\ trips_request = <<>>
    /\ trips_response = <<>>
    /\ db_stats = <<>>
    /\ server = "starting"
    /\ served = 0
    /\ last_request = "none"
    /\ last_response = "none"
    /\ db_file \in {"ok", "absent", "no_tables"}
    /\ db_trips \in (IF db_file = "ok"
                     THEN {<<>>, <<TripRow("Midtown", 1000, 500),
                                   TripRow("SoHo", 2000, 300)>>}
                     ELSE {<<>>})

\* lines 350-364: exit(1) when the database file is absent at start
StartServer ==
    /\ server = "starting"
    /\ server' = IF db_file = "absent" THEN "not_started" ELSE "up"
    /\ UNCHANGED <<served, last_request, last_response, storeVars, listVars, outsideApi>>

\* load_databasi.py run again beside the server: it removes the database
\* file (lines 44-46), creates the tables (lines 48-115) and fills them
LoaderStep ==
    /\ server = "up"
    /\ \/ db_file \in {"ok", "no_tables"} /\ db_file' = "absent"
       \/ db_file = "absent" /\ db_file' = "no_tables"
       \/ db_file = "no_tables" /\ db_file' = "ok"
    /\ UNCHANGED <<db_trips, db_stats, apiVars, listVars, outsideApi>>

\* get_db() and one query: sqlite3.connect creates a missing file (an
\* empty database), and the query raises OperationalError without its table
QueryOutcome == IF db_file = "ok" THEN "success" ELSE "failure"
AfterConnect == IF db_file = "absent" THEN "no_tables" ELSE db_file

Answer(route, response) ==
    /\ served' = served + 1
    /\ last_request' = route
    /\ last_response' = response

\* lines 31-46
HandleIndex ==
    /\ server = "up" /\ served < MaxRequests
    /\ Answer("/", "success")
    /\ UNCHANGED <<server, storeVars, listVars, outsideApi>>

\* get_stats, get_boroughs, trips_by_borough, trips_by_hour, trips_by_day,
\* get_zones: try ... except Exception
HandleQuery ==
    /\ server = "up" /\ served < MaxRequests
    /\ \E route \in QueryRoutes : Answer(route, QueryOutcome)
    /\ db_file' = AfterConnect
    /\ UNCHANGED <<server, db_trips, db_stats, listVars, outsideApi>>

\* get_trips and top_routes: int(limit), int(offset) raise ValueError
\* inside the try, before the database is opened
HandleNumbered ==
    /\ server = "up" /\ served < MaxRequests
    /\ \E route \in {"/api/trips", "/api/trips/top-routes"},
          wellformed \in BOOLEAN :
          IF wellformed
          THEN /\ Answer(route, QueryOutcome)
               /\ db_file' = AfterConnect
          ELSE /\ Answer(route, "failure")
               /\ UNCHANGED db_file
    /\ UNCHANGED <<server, db_trips, db_stats, listVars, outsideApi>>

\* zone_rankings, lines 337-344: rank_zones() calls get_zone_stats(), which
\* calls sys.exit(1) when the file is absent or the query fails; SystemExit
\* is no Exception, so the except clause of the route does not catch it.
\* What becomes of the process is the WSGI server's choice: the thread of
\* the request ends, or the process does.
HandleZoneRankings ==
    /\ server = "up" /\ served < MaxRequests
    /\ IF db_file = "ok"
       THEN /\ Answer("/api/zone-rankings", "success")
            /\ UNCHANGED server
       ELSE /\ Answer("/api/zone-rankings", "aborted")
            /\ server' \in {"up", "exited"}
    /\ UNCHANGED <<storeVars, listVars, outsideApi>>

NextApi ==
    \/ StartServer
    \/ LoaderStep
    \/ HandleIndex
    \/ HandleQuery
    \/ HandleNumbered
    \/ HandleZoneRankings

\* api_server.py is not running
ApiIdle ==
    /\ trips_request = <<>>
    /\ trips_response = <<>>
    /\ server = "off"
    /\ served = 0
    /\ last_request = "none"
    /\ last_response = "none"

----------------------------------------------------------------------------
(* load_databasi.py, top to bottom: the cleaned trips are loaded into the  *)
(* SQLite database and the summary statistics are computed from it.        *)

\* the three files of line 23
CleanedFiles == {"trips_clean.parquet", "zones_clean.csv",
                 "trips_sample.csv"}

\* a cleaned trip: Monday 08:00 from Midtown to JFK Airport, 3 miles in 20
\* minutes, fare 15.00 and tip 3.00
CleanedBase ==
    [Base EXCEPT !.trip_duration_mins = 2000, !.avg_speed_mph = 900,
                 !.tip_percentage = 2000, !.hour_of_day = 8,
                 !.time_of_day = "Morning Rush", !.day_of_week = "Monday",
                 !.is_weekend = FALSE,
                 !.pickup_borough = "Manhattan", !.pickup_zone = "Midtown",
                 !.dropoff_borough = "Queens",
                 !.dropoff_zone = "JFK Airport"]

\* the cleaned trips the files are drawn from: that trip, a Monday 17:00
\* trip from JFK Airport, and a Saturday 23:00 trip whose pickup location
\* has no zone
CleanedQueens ==
    [CleanedBase EXCEPT !.pickup_datetime = 17 * 3600,
                        !.dropoff_datetime = 17 * 3600 + 1200,
                        !.hour_of_day = 17, !.time_of_day = "Evening Rush",
                        !.pickup_location_id = 2,
                        !.pickup_borough = "Queens",
                        !.pickup_zone = "JFK Airport",
                        !.fare_amount = 2000, !.tip_percentage = 1500]

CleanedUnzoned ==
    [CleanedBase EXCEPT !.pickup_datetime = 5 * 86400 + 23 * 3600,
                        !.dropoff_datetime = 5 * 86400 + 23 * 3600 + 1200,
                        !.hour_of_day = 23, !.time_of_day = "Night",
                        !.day_of_week = "Saturday", !.is_weekend = TRUE,
                        !.pickup_location_id = 3,
                        !.pickup_borough = None, !.pickup_zone = None,
                        !.tip_amount = 0, !.tip_percentage = 0]

CleanedCatalogue == {CleanedBase, CleanedQueens, CleanedUnzoned}

\* the largest number of rows of the cleaned file, the largest BATCH_SIZE
\* and the largest number of runs of the script
MaxCleaned == 3
MaxBatch == 2
MaxRuns == 2

CleanedInputs == UNION { [1..n -> CleanedCatalogue] : n \in 0..MaxCleaned }

\* what a later run may find: the cleaned file as it was or written anew
\* by clean_data.py, and all three files or the sample file missing
RerunInputs == {<<>>, <<CleanedQueens, CleanedUnzoned>>}
RerunFiles == {CleanedFiles, CleanedFiles \ {"trips_sample.csv"}}

\* astype(str) of a datetime column and str(value)
StrOf(x) == <<"str", x>>

\* lines 137-156: the columns of the table, the datetimes as strings and
\* is_weekend as an integer
InsertRow(r) ==
    [vendor_id |-> r.vendor_id,
     pickup_datetime |-> StrOf(r.pickup_datetime),
     dropoff_datetime |-> StrOf(r.dropoff_datetime),
     passenger_count |-> r.passenger_count,
     trip_distance |-> r.trip_distance,
     pickup_location_id |-> r.pickup_location_id,
     dropoff_location_id |-> r.dropoff_location_id,
     fare_amount |-> r.fare_amount, tip_amount |-> r.tip_amount,
     trip_duration_mins |-> r.trip_duration_mins,
     avg_speed_mph |-> r.avg_speed_mph,
     tip_percentage |-> r.tip_percentage,
     hour_of_day |-> r.hour_of_day, time_of_day |-> r.time_of_day,
     day_of_week |-> r.day_of_week,
     is_weekend |-> IF r.is_weekend THEN 1 ELSE 0,
     pickup_borough |-> r.pickup_borough, pickup_zone |-> r.pickup_zone,
     dropoff_borough |-> r.dropoff_borough,
     dropoff_zone |-> r.dropoff_zone]

\* a row of the trips table: the inserted columns and the key
StoredRow(r, id) == [c \in DOMAIN r \cup {"id"} |->
                        IF c = "id" THEN id ELSE r[c]]

\* the database file as one value
Store == [file |-> db_file, trips |-> db_trips, stats |-> db_stats]

\* the old file is kept (and CREATE TABLE IF NOT EXISTS keeps its rows)
os_remove_skipped(db) == db

\* os.remove(DB_PATH)
os_remove(db) == [file |-> "absent", trips |-> <<>>, stats |-> <<>>]

\* sqlite3.connect creates a missing file as an empty database
connect(db) == IF db.file = "absent" THEN [db EXCEPT !.file = "no_tables"]
               ELSE db

\* the slice taken one row too long
iloc_inclusive(df, a, b) ==
    [k \in 1..((IF b + 1 < Len(df) THEN b + 1 ELSE Len(df)) - a) |->
        df[a + k]]

\* df.iloc[a:b], positions counted from 0
iloc(df, a, b) ==
    [k \in 1..((IF b < Len(df) THEN b ELSE Len(df)) - a) |-> df[a + k]]

\* batch.to_sql('trips', conn, if_exists='append', index=False): the key
\* is AUTOINCREMENT
to_sql(table, batch) ==
    table \o [k \in 1..Len(batch) |-> StoredRow(batch[k], Len(table) + k)]

LoadIdle ==
    /\ lpc = "off"
    /\ cleaned_files = CleanedFiles
    /\ cleaned = <<>>
    /\ batch_size = 1
    /\ to_insert = <<>>
    /\ loop_i = 0
    /\ total_inserted = 0
    /\ stats = <<>>
    /\ load_runs = 0
    /\ done_runs = 0

InitLoad ==
    /\ lpc = "check"
    /\ cleaned_files \in SUBSET CleanedFiles
    /\ cleaned \in CleanedInputs
    /\ batch_size \in 1..MaxBatch
    /\ to_insert = <<>>
    /\ loop_i = 0
    /\ total_inserted = 0
    /\ stats = <<>>
    /\ load_runs = 1
    /\ done_runs = 0
    /\ db_file = "absent"
    /\ db_trips = <<>>
    /\ db_stats = <<>>

\* lines 22-30: exit(1) at the first missing file
CheckCleaned ==
    /\ lpc = "check"
    /\ lpc' = IF cleaned_files = CleanedFiles THEN "read" ELSE "exit"
    /\ UNCHANGED <<cleaned_files, cleaned, batch_size, to_insert, loop_i,
                   total_inserted, stats, load_runs, done_runs>>
    /\ UNCHANGED <<storeVars, outsideLoad>>

\* lines 33-50: the files are read, an existing database file is removed
\* and a new one is opened
RemoveOldDatabase ==
    /\ lpc = "read"
    /\ LET db == connect(IF db_file # "absent" THEN os_remove(Store)
                         ELSE Store)
       IN  /\ db_file' = db.file
           /\ db_trips' = db.trips
           /\ db_stats' = db.stats
    /\ lpc' = "create"
    /\ UNCHANGED <<cleaned_files, cleaned, batch_size, to_insert, loop_i,
                   total_inserted, stats, load_runs, done_runs>>
    /\ UNCHANGED outsideLoad

\* lines 57-124: CREATE TABLE IF NOT EXISTS zones, trips, summary_stats
CreateTables ==
    /\ lpc = "create"
    /\ db_file' = "ok"
    /\ lpc' = "prepare"
    /\ UNCHANGED <<db_trips, db_stats>>
    /\ UNCHANGED <<cleaned_files, cleaned, batch_size, to_insert, loop_i,
                   total_inserted, stats, load_runs, done_runs>>
    /\ UNCHANGED outsideLoad

\* lines 137-158
PrepareInsert ==
    /\ lpc = "prepare"
    /\ to_insert' = [k \in 1..Len(cleaned) |-> InsertRow(cleaned[k])]
    /\ total_inserted' = 0
    /\ loop_i' = 0
    /\ lpc' = "batch"
    /\ UNCHANGED <<cleaned_files, cleaned, batch_size, stats, load_runs,
                   done_runs>>
    /\ UNCHANGED <<storeVars, outsideLoad>>

\* lines 159-163: one turn of for i in range(0, len(trips_to_insert),
\* BATCH_SIZE)
InsertBatch ==
    /\ lpc = "batch"
    /\ loop_i < Len(to_insert)
    /\ LET batch == iloc(to_insert, loop_i, loop_i + batch_size)
       IN  /\ db_trips' = to_sql(db_trips, batch)
           /\ total_inserted' = total_inserted + Len(batch)
    /\ loop_i' = loop_i + batch_size
    /\ UNCHANGED <<lpc, cleaned_files, cleaned, batch_size, to_insert, stats,
                   load_runs, done_runs>>
    /\ UNCHANGED <<db_file, db_stats, outsideLoad>>

\* the range is exhausted; lines 165-180
CreateIndexes ==
    /\ lpc = "batch"
    /\ loop_i >= Len(to_insert)
    /\ lpc' = "stats"
    /\ UNCHANGED <<cleaned_files, cleaned, batch_size, to_insert, loop_i,
                   total_inserted, stats, load_runs, done_runs>>
    /\ UNCHANGED <<storeVars, outsideLoad>>

\* the keys of the dict `stats`, in the order lines 189-227 set them
StatNames == <<"total_trips", "avg_fare", "avg_distance",
               "avg_duration_mins", "avg_speed_mph", "avg_tip_percentage",
               "top_pickup_borough", "peak_hour">>

\* round(SELECT AVG(column) FROM trips, 2), in hundredths
AvgOf(rows, f) == RoundHalfEven(SumField(rows, f), Len(rows))

CountWhere(rows, f, v) == Cardinality({ k \in 1..Len(rows) : rows[k][f] = v })

\* GROUP BY f ORDER BY cnt DESC LIMIT 1: a group of the largest count;
\* which one among equal counts is up to the database engine
Busiest(rows, f) ==
    LET vals == { rows[k][f] : k \in 1..Len(rows) }
    IN  { v \in vals : \A w \in vals :
                          CountWhere(rows, f, w) <= CountWhere(rows, f, v) }

\* lines 186-227, for a table that holds rows
StatsOf(rows) ==
    LET named == Select(rows, [k \in 1..Len(rows) |->
                                  rows[k].pickup_borough # None])
    IN  { [n \in Range(StatNames) |->
             CASE n = "total_trips"        -> Len(rows)
               [] n = "avg_fare"           -> AvgOf(rows, "fare_amount")
               [] n = "avg_distance"       -> AvgOf(rows, "trip_distance")
               [] n = "avg_duration_mins"  ->
                      AvgOf(rows, "trip_duration_mins")
               [] n = "avg_speed_mph"      -> AvgOf(rows, "avg_speed_mph")
               [] n = "avg_tip_percentage" -> AvgOf(rows, "tip_percentage")
               [] n = "top_pickup_borough" -> b
               [] n = "peak_hour"          -> h] :
          b \in (IF named = <<>> THEN {"Unknown"}
                 ELSE Busiest(named, "pickup_borough")),
          h \in Busiest(rows, "hour_of_day") }

\* lines 186-227: AVG over an empty table is NULL, and round(None, 2)
\* raises TypeError
CalcStats ==
    /\ lpc = "stats"
    /\ IF db_trips = <<>>
       THEN /\ lpc' = "crashed"
            /\ stats' = (("total_trips") :> 0)
       ELSE /\ lpc' = "save_stats"
            /\ stats' \in StatsOf(db_trips)
    /\ UNCHANGED <<cleaned_files, cleaned, batch_size, to_insert, loop_i,
                   total_inserted, load_runs, done_runs>>
    /\ UNCHANGED <<storeVars, outsideLoad>>

\* lines 230-236: one INSERT per key of `stats`, all with the same `now`
InsertStats(table, st, now) ==
    table \o [k \in 1..Len(StatNames) |->
                 [id |-> Len(table) + k, stat_name |-> StatNames[k],
                  stat_value |-> StrOf(st[StatNames[k]]),
                  created_at |-> now]]

\* lines 230-272
SaveStats ==
    /\ lpc = "save_stats"
    /\ db_stats' = InsertStats(db_stats, stats, load_runs)
    /\ lpc' = "done"
    /\ done_runs' = done_runs + 1
    /\ UNCHANGED <<cleaned_files, cleaned, batch_size, to_insert, loop_i,
                   total_inserted, stats, load_runs>>
    /\ UNCHANGED <<db_file, db_trips, outsideLoad>>

\* the script is started again, after clean_data.py has or has not written
\* its files anew
RunAgain ==
    /\ lpc \in {"done", "exit", "crashed"}
    /\ load_runs < MaxRuns
    /\ load_runs' = load_runs + 1
    /\ lpc' = "check"
    /\ cleaned_files' \in RerunFiles
    /\ cleaned' \in {cleaned} \cup RerunInputs
    /\ to_insert' = <<>>
    /\ loop_i' = 0
    /\ total_inserted' = 0
    /\ stats' = <<>>
    /\ UNCHANGED <<batch_size, done_runs>>
    /\ UNCHANGED <<storeVars, outsideLoad>>

NextLoad ==
    \/ CheckCleaned
    \/ RemoveOldDatabase
    \/ CreateTables
    \/ PrepareInsert
    \/ InsertBatch
    \/ CreateIndexes
    \/ CalcStats
    \/ SaveStats
    \/ RunAgain

----------------------------------------------------------------------------
(* The two pure functions called on their own: get_time_of_day of          *)
(* clean_data.py on every hour of the day and mobility_score of            *)
(* algorithm.py on zone statistics of any size.                            *)

\* pickup_datetime.dt.hour
Hours == 0..23

\* the zone statistics mobility_score is called with (avg_fare and
\* avg_distance in hundredths); on each of them the float sum and its
\* round(., 2) agree with the exact decimal value rounded half to even
ZoneStats ==
    { [zone |-> "Midtown", borough |-> "Manhattan", trip_count |-> tc,
       avg_fare |-> f, avg_distance |-> d, score |-> NoKey,
       rank |-> NoKey] :
        tc \in {0, 1, 999, 1000, 2500}, f \in {0, 1000, 1001, 2550},
        d \in {0, 500, 333} }

CalcIdle ==
    /\ call_fn = "none"
    /\ call_arg = 0
    /\ call_result = <<>>

InitCalc ==
    /\ call_result = <<>>
    /\ \/ call_fn = "get_time_of_day" /\ call_arg \in Hours
       \/ call_fn = "mobility_score" /\ call_arg \in ZoneStats

\* clean_data.py lines 234-241
CallTimeOfDay ==
    /\ call_fn = "get_time_of_day"
    /\ call_result = <<>>
    /\ call_result' = << get_time_of_day(call_arg) >>
    /\ UNCHANGED <<call_fn, call_arg, outsideCalc>>

\* algorithm.py lines 88-93
CallMobilityScore ==
    /\ call_fn = "mobility_score"
    /\ call_result = <<>>
    /\ call_result' = << mobility_score(call_arg) >>
    /\ UNCHANGED <<call_fn, call_arg, outsideCalc>>

NextCalc ==
    \/ CallTimeOfDay
    \/ CallMobilityScore

----------------------------------------------------------------------------
(* rank_zones called by several callers at once (the request threads of    *)
(* the API): every invocation has its own locals; the store is shared.     *)

\* the largest number of invocations in progress and of rows of the store
MaxCalls == 2
MaxConcTrips == 3

\* the stores they read: trips from Astoria and SoHo, which score the
\* same, and from Midtown
ConcStores ==
    UNION { [1..n -> {TripRow("Astoria", 1000, 500),
                      TripRow("Midtown", 2000, 300),
                      TripRow("SoHo", 1000, 500)}] : n \in 0..MaxConcTrips }

\* the locals of one invocation: its position, the list `zones`, and i, j,
\* <<current>> of insertion_sort
NewFrame == [rpc |-> "get_zone_stats", list |-> <<>>, i |-> 0, j |-> 0,
             current |-> <<>>]

\* one step of rank_zones on its own locals, lines 158-179 and 124-137
RankStep(f, file, rows) ==
    CASE f.rpc = "get_zone_stats" ->
             IF file = "ok"
             THEN [f EXCEPT !.list = get_zone_stats(rows), !.rpc = "scores"]
             ELSE [f EXCEPT !.rpc = "exit"]
      [] f.rpc = "scores" ->
             [f EXCEPT !.list = [k \in 1..Len(f.list) |->
                                    [f.list[k] EXCEPT !.score =
                                         mobility_score(f.list[k])]],
                       !.rpc = "sort"]
      [] f.rpc = "sort" -> [f EXCEPT !.i = 1, !.rpc = "for"]
      [] f.rpc = "for" ->
             IF f.i < Len(f.list)
             THEN [f EXCEPT !.current = << f.list[f.i + 1] >>,
                            !.j = f.i - 1, !.rpc = "while"]
             ELSE [f EXCEPT !.rpc = "ranks"]
      [] f.rpc = "while" ->
             IF f.j < 0 THEN [f EXCEPT !.rpc = "place"]
             ELSE IF CompareFaults(f.list[f.j + 1].score, f.current[1].score)
             THEN [f EXCEPT !.rpc = "fault"]
             ELSE IF ScoreLess(f.list[f.j + 1].score, f.current[1].score)
             THEN [f EXCEPT !.list[f.j + 2] = f.list[f.j + 1],
                            !.j = f.j - 1]
             ELSE [f EXCEPT !.rpc = "place"]
      [] f.rpc = "place" ->
             [f EXCEPT !.list = Place(f.list, f.j, f.current[1]),
                       !.i = f.i + 1, !.rpc = "for"]
      [] f.rpc = "ranks" ->
             [f EXCEPT !.list = AssignRanks(f.list), !.rpc = "returned"]
      [] OTHER -> f

\* `zones` kept in one module-level list that every invocation assigns
StoreList_global(cs, c, zl) == [d \in DOMAIN cs |-> [cs[d] EXCEPT !.list = zl]]

\* an assignment to the local list `zones` of invocation c
StoreList(cs, c, zl) == [cs EXCEPT ![c].list = zl]

\* invocation c takes one step
StepOf(cs, c, file, rows) ==
    LET g == RankStep(cs[c], file, rows)
    IN  StoreList([cs EXCEPT ![c] = [g EXCEPT !.list = cs[c].list]], c,
                  g.list)

ConcIdle == calls = <<>>

InitConc ==
    /\ calls = [c \in 1..MaxCalls |-> NewFrame]
    /\ db_file \in {"ok", "absent"}
    /\ db_trips \in (IF db_file = "ok" THEN ConcStores ELSE {<<>>})
    /\ db_stats = <<>>

Advance(c, phases) ==
    /\ calls[c].rpc \in phases
    /\ calls' = StepOf(calls, c, db_file, db_trips)
    /\ UNCHANGED <<storeVars, outsideConc>>

\* lines 158 and 28-69
ConcGetZoneStats == \E c \in DOMAIN calls : Advance(c, {"get_zone_stats"})

\* lines 162-163
ConcScores == \E c \in DOMAIN calls : Advance(c, {"scores"})

\* line 169 and lines 124-137
ConcSort ==
    \E c \in DOMAIN calls : Advance(c, {"sort", "for", "while", "place"})

\* lines 174-179
ConcRanks == \E c \in DOMAIN calls : Advance(c, {"ranks"})

NextConc ==
    \/ ConcGetZoneStats
    \/ ConcScores
    \/ ConcSort
    \/ ConcRanks

\* rank_zones run from its first line to its return by one caller
RECURSIVE RunAlone(_, _, _)
RunAlone(f, file, rows) ==
    IF f.rpc \in {"returned", "exit", "fault"} THEN f
    ELSE RunAlone(RankStep(f, file, rows), file, rows)

----------------------------------------------------------------------------
(* api_server.py, GET /api/trips: the filtered, paged listing.  A query    *)
(* parameter the URL does not carry is None for the filters and NoKey for  *)
(* limit and offset; Unparseable is a text int() rejects.                  *)

\* the tables the listing reads: what load_databasi.py stores for a
\* cleaned file
ListedStores ==
    { to_sql(<<>>, [k \in 1..Len(c) |-> InsertRow(c[k])]) :
        c \in CleanedInputs }

\* the query strings
TripsRequests ==
    [borough     : {None, "", "Manhattan", "Queens"},
     time_of_day : {None, "Morning Rush", "Night"},
     day         : {None, "Monday", "Saturday"},
     limit       : {NoKey, Unparseable, -1, 0, 1, 2},
     offset      : {NoKey, Unparseable, -1, 0, 1, 2}]

\* request.args.get('limit', 100) and request.args.get('offset', 0)
DefaultLimit == 100
DefaultOffset == 0

\* `if borough:` is false for None and for the empty string
Truthy(x) == x # None /\ x # ""

\* the WHERE clause built at lines 124-136; a NULL column equals nothing
Where(r, args) ==
    /\ Truthy(args.borough) =>
          r.pickup_borough # None /\ r.pickup_borough = args.borough
    /\ Truthy(args.time_of_day) =>
          r.time_of_day # None /\ r.time_of_day = args.time_of_day
    /\ Truthy(args.day) =>
          r.day_of_week # None /\ r.day_of_week = args.day

\* the columns of the SELECT, lines 115-122
Listed(r) ==
    [pickup_borough |-> r.pickup_borough,
     dropoff_borough |-> r.dropoff_borough,
     pickup_zone |-> r.pickup_zone, dropoff_zone |-> r.dropoff_zone,
     fare_amount |-> r.fare_amount, trip_distance |-> r.trip_distance,
     trip_duration_mins |-> r.trip_duration_mins,
     avg_speed_mph |-> r.avg_speed_mph,
     tip_percentage |-> r.tip_percentage, time_of_day |-> r.time_of_day,
     day_of_week |-> r.day_of_week, hour_of_day |-> r.hour_of_day,
     passenger_count |-> r.passenger_count]

\* LIMIT l OFFSET o of SQLite: a negative OFFSET counts as 0 and a
\* negative LIMIT is no limit
LimitOffset(rows, l, o) ==
    LET from == IF o < 0 THEN 0 ELSE o
        upto == IF l < 0 \/ from + l > Len(rows) THEN Len(rows)
                ELSE from + l
    IN  [k \in 1..(upto - from) |-> rows[from + k]]

\* lines 105-172
get_trips(args, file, rows) ==
    IF args.limit = Unparseable \/ args.offset = Unparseable
    THEN [success |-> FALSE, error |-> "ValueError"]
    ELSE IF file # "ok"
    THEN [success |-> FALSE, error |-> "OperationalError"]
    ELSE LET limit  == IF args.limit = NoKey THEN DefaultLimit
                       ELSE args.limit
             offset == IF args.offset = NoKey THEN DefaultOffset
                       ELSE args.offset
             found  == Select(rows, [k \in 1..Len(rows) |->
                                        Where(rows[k], args)])
             page   == LimitOffset(found, limit, offset)
         IN  [success |-> TRUE, total |-> Len(found), limit |-> limit,
              offset |-> offset,
              data |-> [k \in 1..Len(page) |-> Listed(page[k])]]

TripsIdle ==
    /\ trips_request = <<>>
    /\ trips_response = <<>>

InitTrips ==
    /\ TripsIdle
    /\ server = "up"
    /\ served = 0
    /\ last_request = "none"
    /\ last_response = "none"
    /\ db_file \in {"ok", "no_tables"}
    /\ db_trips \in (IF db_file = "ok" THEN ListedStores ELSE {<<>>})
    /\ db_stats = <<>>

\* the route, for one request
GetTrips ==
    /\ server = "up"
    /\ trips_request = <<>>
    /\ \E args \in TripsRequests :
          /\ trips_request' = << args >>
          /\ trips_response' = << get_trips(args, db_file, db_trips) >>
    /\ UNCHANGED <<apiVars, storeVars, outsideApi>>

NextTrips == GetTrips

----------------------------------------------------------------------------
Init == InitClean /\ OrderIdle /\ RankIdle /\ ApiIdle /\ LoadIdle
    /\ CalcIdle /\ ConcIdle

Next == NextClean

Spec == Init /\ [][Next]_vars

InitOrderRun == InitOrder /\ RankIdle /\ ApiIdle /\ LoadIdle
    /\ CalcIdle /\ ConcIdle

SpecOrder == InitOrderRun /\ [][NextOrder]_vars

InitRankRun == InitRank /\ CleanIdle /\ OrderIdle /\ ApiIdle /\ LoadIdle
    /\ CalcIdle /\ ConcIdle

\* the interpreter keeps running the function that was called
SpecRank == InitRankRun /\ [][NextRank]_vars /\ WF_vars(NextRank)

InitApiRun ==
    /\ InitApi /\ CleanIdle /\ OrderIdle /\ LoadIdle /\ CalcIdle
    /\ ConcIdle
    /\ entry = "none" /\ rpc = "off" /\ zone_list = <<>> /\ sort_input = <<>>
    /\ sort_i = 0 /\ sort_j = 0 /\ sort_current = NoKey

SpecApi == InitApiRun /\ [][NextApi]_vars

InitLoadRun ==
    /\ InitLoad /\ CleanIdle /\ OrderIdle /\ ApiIdle /\ CalcIdle
    /\ ConcIdle
    /\ entry = "none" /\ rpc = "off" /\ zone_list = <<>> /\ sort_input = <<>>
    /\ sort_i = 0 /\ sort_j = 0 /\ sort_current = NoKey

SpecLoad == InitLoadRun /\ [][NextLoad]_vars

InitCalcRun ==
    /\ InitCalc /\ CleanIdle /\ OrderIdle /\ RankIdle /\ ApiIdle /\ LoadIdle
    /\ ConcIdle

SpecCalc == InitCalcRun /\ [][NextCalc]_vars

InitConcRun ==
    /\ InitConc /\ CleanIdle /\ OrderIdle /\ ApiIdle /\ LoadIdle /\ CalcIdle
    /\ entry = "none" /\ rpc = "off" /\ zone_list = <<>> /\ sort_input = <<>>
    /\ sort_i = 0 /\ sort_j = 0 /\ sort_current = NoKey

SpecConc == InitConcRun /\ [][NextConc]_vars

InitTripsRun ==
    /\ InitTrips /\ CleanIdle /\ OrderIdle /\ LoadIdle /\ CalcIdle /\ ConcIdle
    /\ entry = "none" /\ rpc = "off" /\ zone_list = <<>> /\ sort_input = <<>>
    /\ sort_i = 0 /\ sort_j = 0 /\ sort_current = NoKey

SpecTrips == InitTripsRun /\ [][NextTrips]_vars

----------------------------------------------------------------------------
(* Properties of the cleaning run.                                         *)

RECURSIVE SumOver(_, _)
SumOver(f, S) ==
    IF S = {} THEN 0
    ELSE LET x == CHOOSE y \in S : TRUE
         IN  f[x] + SumOver(f, S \ {x})

Saved == pc \in {"log", "done", "crashed"}

\* the frame the validation passes start from
Deduplicated ==
    drop_duplicates([i \in 1..Len(raw) |-> FixRow(read_parquet(raw)[i])])

\* C1: duplicates removed + the removals of the nine validation predicates
\* + the rows dropped by the speed filter + the rows written to the cleaned
\* output = the rows of the raw input.
Conservation ==
    Saved =>
        cleaning_log.removed[L_dup]
        + cleaning_log.removed[L_missing]
        + SumOver(cleaning_log.removed, Range(Steps5))
        + speed_filtered
        + Len(out_parquet[1])
        = Len(raw)

\* a run in which a duplicate, a validation predicate and the speed filter
\* each removed a row and a row was kept
ConservationWitness ==
    /\ pc = "done"
    /\ cleaning_log.removed[L_dup] > 0
    /\ cleaning_log.removed[L_missing]
       + SumOver(cleaning_log.removed, Range(Steps5)) > 0
    /\ speed_filtered > 0
    /\ Len(out_parquet[1]) > 0

\* C2: in the written cleaning log, the sum of all recorded removal counts
\* plus final_rows equals original_rows.
LogConservation ==
    log_file # <<>> =>
        LET log == log_file[1]
        IN  SumOver(log.removed, DOMAIN log.removed) + log.final_rows
            = log.original_rows

\* the first predicate of the pipeline order that a row matches
FirstReason(r) ==
    IF MissingCritical(r) THEN L_missing
    ELSE IF r.fare_amount <= 0 THEN L_fare0
    ELSE IF r.trip_distance <= 0 THEN L_dist0
    ELSE IF r.trip_distance > 20000 THEN L_dist200
    ELSE IF r.fare_amount > 100000 THEN L_fare1000
    ELSE IF r.passenger_count # NaN
            /\ (r.passenger_count <= 0 \/ r.passenger_count > 6) THEN L_pass
    ELSE IF r.dropoff_datetime <= r.pickup_datetime THEN L_dropoff
    ELSE IF r.dropoff_datetime - r.pickup_datetime > 86400 THEN L_24h
    ELSE IF r.dropoff_datetime - r.pickup_datetime < 60 THEN L_1min
    ELSE "kept"

\* C3: each row removed by the validation passes is counted under the first
\* predicate of the pipeline order that it matches and under no other, and
\* the rows that reach feature derivation are those matching no predicate.
FirstReasonOnly ==
    pc = "duration" =>
        LET D      == Deduplicated
            reason == [i \in 1..Len(D) |-> FirstReason(D[i])]
        IN  /\ \A label \in {L_missing} \cup Range(Steps5) :
                  cleaning_log.removed[label]
                  = Cardinality({ i \in 1..Len(D) : reason[i] = label })
            /\ { trips[i].idx : i \in 1..Len(trips) }
               = { D[i].idx : i \in { k \in 1..Len(D) : reason[k] = "kept" } }

\* a row with fare -5.00, distance 0 and no passengers was counted under
\* the fare label alone
FirstReasonWitness ==
    /\ pc = "duration"
    /\ \E i \in 1..Len(raw) :
          /\ raw[i].fare_amount = -500
          /\ raw[i].trip_distance = 0
          /\ raw[i].passenger_count = 0
    /\ cleaning_log.removed[L_fare0] = 1
    /\ cleaning_log.removed[L_dist0] = 0
    /\ cleaning_log.removed[L_pass] = 0
    /\ trips = <<>>

\* a row of the cleaned output satisfies every predicate of 4.1 and 4.2
CleanTrip(r) ==
    /\ ~MissingCritical(r)
    /\ 0 < r.fare_amount /\ r.fare_amount <= 100000
    /\ 0 < r.trip_distance /\ r.trip_distance <= 20000
    /\ 1 <= r.passenger_count /\ r.passenger_count <= 6
    /\ r.dropoff_datetime > r.pickup_datetime
    /\ 60 <= r.dropoff_datetime - r.pickup_datetime
    /\ r.dropoff_datetime - r.pickup_datetime <= 86400
    /\ IsNum(r.trip_duration_mins) /\ r.trip_duration_mins > 0
    /\ IsNum(r.avg_speed_mph)
    /\ 100 <= r.avg_speed_mph /\ r.avg_speed_mph <= 15000
    /\ 0 <= r.tip_percentage /\ r.tip_percentage <= 10000
    /\ 0 <= r.hour_of_day /\ r.hour_of_day <= 23

OrderIndependent ==
    (pc = "reorder" /\ applied = AllPasses) =>
        trips = ScriptOrder(raw).df

\* a reordered run that ended with other per-label counts than the script's
\* order, over an input of which a row survives
OrderWitness ==
    /\ pc = "reorder"
    /\ applied = AllPasses
    /\ trips # <<>>
    /\ cleaning_log.removed # ScriptOrder(raw).log.removed

----------------------------------------------------------------------------
(* Properties of the ranking.                                              *)

\* insertion_sort has just returned
Sorted == rpc = "ranks" \/ (entry = "insertion_sort" /\ rpc = "returned")

\* where the zone named z stood in the list insertion_sort received
InputPosition(z) == CHOOSE k \in 1..Len(sort_input) : sort_input[k].zone = z

\* C6: insertion_sort is stable: of two zones with the same score, the one
\* earlier in the input is earlier in the output.
StableSort ==
    Sorted =>
        \A p, q \in 1..Len(zone_list) :
            (p < q /\ zone_list[p].score = zone_list[q].score)
            => InputPosition(zone_list[p].zone)
               < InputPosition(zone_list[q].zone)

\* the input [A(10), B(10), C(20)] came out as [C, A, B]
StableSortWitness ==
    /\ rpc = "returned"
    /\ Len(sort_input) = 3
    /\ [k \in 1..3 |-> sort_input[k].score] = <<1000, 1000, 2000>>
    /\ zone_list = <<sort_input[3], sort_input[1], sort_input[2]>>

Count(seq, x) == Cardinality({ k \in 1..Len(seq) : seq[k] = x })

IsPermutation(a, b) ==
    /\ Len(a) = Len(b)
    /\ \A k \in 1..Len(a) : Count(a, a[k]) = Count(b, a[k])

NonIncreasing(zs) ==
    \A p, q \in 1..Len(zs) : p < q => zs[p].score >= zs[q].score

AllScored(zs) == \A k \in 1..Len(zs) : IsNumber(zs[k].score)

\* C7: called with zones that all carry a numeric score, insertion_sort
\* returns, and what it returns is a permutation of its input with the
\* scores non-increasing.
SortTerminatesSorted ==
    /\ [](Sorted => /\ IsPermutation(zone_list, sort_input)
                    /\ NonIncreasing(zone_list))
    /\ (rpc = "sort" /\ AllScored(zone_list)) ~> Sorted

\* a list of three zones that the sort had to reorder has been returned
SortWitness ==
    /\ rpc = "returned"
    /\ entry = "insertion_sort"
    /\ Len(zone_list) = 3
    /\ AllScored(sort_input)
    /\ zone_list # sort_input

\* the distinct pickup zones of the store
StoreZones ==
    { db_trips[k].pickup_zone : k \in 1..Len(db_trips) } \ {None}

\* C8: rank_zones gives the k-th zone of its result the rank k, one zone
\* per pickup zone of the store, and over a store without zones it returns
\* the empty list without an error.
DenseRanks ==
    /\ (entry = "rank_zones" /\ rpc = "returned") =>
          /\ Len(zone_list) = Cardinality(StoreZones)
          /\ \A k \in 1..Len(zone_list) : zone_list[k].rank = k
    /\ (entry = "rank_zones" /\ db_file = "ok") => rpc \notin {"fault", "exit"}

\* rank_zones returned two zones of equal score under the ranks 1 and 2
DenseRanksWitness ==
    /\ entry = "rank_zones"
    /\ rpc = "returned"
    /\ Len(zone_list) >= 2
    /\ zone_list[1].score = zone_list[2].score
    /\ zone_list[1].rank = 1
    /\ zone_list[2].rank = 2

\* C9: insertion_sort does not return normally when a zone of its input
\* has a missing or non-numeric score.
BadScoreFaults ==
    (entry = "insertion_sort" /\ rpc = "returned")
        => AllScored(sort_input)

----------------------------------------------------------------------------
(* Properties of the read API.                                             *)

\* C10: every request is answered within the request, a failure with
\* {success: false, error}, and the serving process is never terminated.
QueryFaultsIsolated ==
    /\ last_response \in {"none", "success", "failure"}
    /\ server # "exited"

\* C13: zone enrichment is a left outer join.  Each merge returns one row
\* per input row, in the same order and with every other column unchanged;
\* the borough and zone of the side are those of the Zone row with the
\* trip's location id, and missing when there is no such row.
EnrichmentStep(side) ==
    /\ Len(trips') = Len(trips)
    /\ \A k \in 1..Len(trips) :
          LET r   == trips[k]
              o   == trips'[k]
              key == IF side = "pickup" THEN r.pickup_location_id
                     ELSE r.dropoff_location_id
              b   == IF side = "pickup" THEN o.pickup_borough
                     ELSE o.dropoff_borough
              z   == IF side = "pickup" THEN o.pickup_zone
                     ELSE o.dropoff_zone
              found == { x \in Range(zones) : x.location_id = key }
              Rest(x) ==
                  IF side = "pickup"
                  THEN [x EXCEPT !.pickup_borough = None,
                                 !.pickup_zone = None, !.idx = 0]
                  ELSE [x EXCEPT !.dropoff_borough = None,
                                 !.dropoff_zone = None, !.idx = 0]
          IN  /\ Rest(o) = Rest(r)
              /\ found = {} => b = None /\ z = None
              /\ \A x \in found : b = x.borough /\ z = x.zone

EnrichmentLeftJoin ==
    [][/\ pc = "merge_pickup" => EnrichmentStep("pickup")
       /\ pc = "merge_dropoff" => EnrichmentStep("dropoff")]_vars

\* the enriched frame holds a trip whose pickup location has no Zone row
\* and whose dropoff location has one, and a trip the other way round
EnrichmentWitness ==
    /\ pc = "save"
    /\ \E i \in 1..Len(trips) :
          /\ trips[i].pickup_location_id = 3
          /\ trips[i].pickup_zone = None
          /\ trips[i].dropoff_zone = "JFK Airport"
    /\ \E i \in 1..Len(trips) :
          /\ trips[i].dropoff_location_id = 3
          /\ trips[i].dropoff_borough = None
          /\ trips[i].pickup_borough = "Manhattan"

\* C15: the 'distance over 200 miles' pass keeps every row it receives
\* with trip_distance exactly 200.00 and removes, and counts, every row it
\* receives with trip_distance 200.01.
DistanceBoundStrict ==
    [][pc = L_dist200 =>
          /\ \A k \in 1..Len(trips) :
                /\ trips[k].trip_distance = 20000
                       => trips[k] \in Range(trips')
                /\ trips[k].trip_distance = 20001
                       => trips[k] \notin Range(trips')
          /\ cleaning_log'.removed[L_dist200] >=
                Cardinality({ k \in 1..Len(trips) :
                                 trips[k].trip_distance = 20001 })
          /\ cleaning_log'.removed[L_dist200] = Len(trips) - Len(trips')
      ]_vars

\* the pass has met a trip of 200.00 miles, which it kept, and one of
\* 200.01 miles, which it removed
DistanceBoundWitness ==
    /\ pc = L_fare1000
    /\ \E k \in 1..Len(raw) : raw[k].trip_distance = 20001
    /\ \E k \in 1..Len(trips) : trips[k].trip_distance = 20000
    /\ cleaning_log.removed[L_dist200] = 1

\* C16: every written row has tip_percentage = tip_amount / fare_amount x
\* 100 rounded to two decimals and clamped into [0, 100], and 0 when
\* tip_amount is missing; computing it removes no row.
TipClamped(r) ==
    IF r.tip_amount = NaN THEN r.tip_percentage = 0
    ELSE LET q == RoundHalfEven(10000 * r.tip_amount, r.fare_amount)
         IN  r.tip_percentage = (IF q < 0 THEN 0
                                 ELSE IF q > 10000 THEN 10000 ELSE q)

TipPercentageClamped ==
    /\ [](out_parquet # <<>> =>
            \A i \in 1..Len(out_parquet[1]) : TipClamped(out_parquet[1][i]))
    /\ [][pc = "tip" => Len(trips') = Len(trips)]_vars

\* the output holds a trip whose tip is missing and a trip whose tip is
\* negative, both with tip_percentage 0
TipWitness ==
    /\ out_parquet # <<>>
    /\ \E i \in 1..Len(out_parquet[1]) :
          /\ out_parquet[1][i].tip_amount = NaN
          /\ out_parquet[1][i].tip_percentage = 0
    /\ \E i \in 1..Len(out_parquet[1]) :
          /\ out_parquet[1][i].tip_amount = -100
          /\ out_parquet[1][i].tip_percentage = 0

----------------------------------------------------------------------------
(* Prerequisite checks.                                                    *)

\* C11: when a required upstream file is absent the stage aborts at its
\* prerequisite check, before reading, transforming, writing or deleting
\* any data: clean_data.py with a raw input file missing has read no trips
\* and written no output.
AbortsAtPrerequisite ==
    /\ raw_files # RawFiles =>
           /\ trips = <<>>
           /\ cleaning_log.original_rows = NaN
           /\ out_parquet = <<>>
           /\ log_file = <<>>
    /\ (lpc # "off" /\ cleaned_files # CleanedFiles) =>
           /\ lpc \in {"check", "exit"}
           /\ to_insert = <<>>

----------------------------------------------------------------------------
(* Properties of the database load.                                        *)

Inserted == lpc \in {"stats", "save_stats", "done", "crashed"}

\* C20: after the insertion loop the trips table holds exactly the cleaned
\* records, each once and in their original order, and total_inserted is
\* their number, whatever the batch size.
BatchUnobservable ==
    Inserted =>
        /\ total_inserted = Len(cleaned)
        /\ Len(db_trips) = Len(cleaned)
        /\ \A k \in 1..Len(db_trips) :
               db_trips[k] = StoredRow(InsertRow(cleaned[k]), k)

\* three different trips inserted in a full batch of two and a last batch
\* of one
BatchWitness ==
    /\ lpc = "stats"
    /\ batch_size = 2
    /\ Len(cleaned) = 3
    /\ Cardinality(Range(cleaned)) = 3
    /\ total_inserted = 3

----------------------------------------------------------------------------
(* Properties of the pure functions.                                       *)

TimeLabels == {"Morning Rush", "Mid Morning", "Afternoon", "Evening Rush",
               "Night", "Late Night"}

\* C14: get_time_of_day maps every hour 0..23 to one of the six labels:
\* 5..8 Morning Rush, 9..11 Mid Morning, 12..16 Afternoon, 17..19 Evening
\* Rush, 20..23 Night and 0..4 Late Night.
TimeOfDayTotal ==
    (call_fn = "get_time_of_day" /\ call_result # <<>>) =>
        /\ call_result[1] \in TimeLabels
        /\ call_result[1] = "Morning Rush" <=> call_arg \in 5..8
        /\ call_result[1] = "Mid Morning"  <=> call_arg \in 9..11
        /\ call_result[1] = "Afternoon"    <=> call_arg \in 12..16
        /\ call_result[1] = "Evening Rush" <=> call_arg \in 17..19
        /\ call_result[1] = "Night"        <=> call_arg \in 20..23
        /\ call_result[1] = "Late Night"   <=> call_arg \in 0..4

\* hour 9, the first hour after the morning rush
TimeOfDayWitness ==
    /\ call_fn = "get_time_of_day"
    /\ call_result # <<>>
    /\ call_arg = 9
    /\ call_result[1] = "Mid Morning"

\* C17: mobility_score is trip_count / 1000 + avg_fare x 0.5 +
\* avg_distance x 2 to the nearest hundredth, and 16.0 for {trip_count:
\* 1000, avg_fare: 10.00, avg_distance: 5.00}.
ScoreFormula ==
    (call_fn = "mobility_score" /\ call_result # <<>>) =>
        LET thousandths == call_arg.trip_count + 5 * call_arg.avg_fare
                           + 20 * call_arg.avg_distance
        IN  /\ 10 * call_result[1] - thousandths \in -5..5
            /\ (call_arg.trip_count = 1000 /\ call_arg.avg_fare = 1000
                /\ call_arg.avg_distance = 500) => call_result[1] = 1600

\* the example of the specification
ScoreWitness ==
    /\ call_fn = "mobility_score"
    /\ call_result # <<>>
    /\ call_arg.trip_count = 1000
    /\ call_arg.avg_fare = 1000
    /\ call_arg.avg_distance = 500
    /\ call_result[1] = 1600

----------------------------------------------------------------------------
(* Properties of concurrent ranking.                                       *)

\* C12: however the invocations of rank_zones interleave over the same
\* store, each returns the ranked list it returns when run alone, and no
\* step of one invocation changes the store or the locals of another.
Reentrant ==
    /\ [](\A c \in DOMAIN calls :
             calls[c].rpc \in {"returned", "exit"} =>
                 LET alone == RunAlone(NewFrame, db_file, db_trips)
                 IN  /\ calls[c].rpc = alone.rpc
                     /\ calls[c].list = alone.list)
    /\ [][/\ UNCHANGED storeVars
          /\ \A c \in DOMAIN calls :
                calls'[c] # calls[c] =>
                    \A d \in DOMAIN calls \ {c} : calls'[d] = calls[d]]_vars

\* the first invocation has returned three ranked zones, two of them of
\* equal score, while the second is in the middle of its sort
ReentrantWitness ==
    /\ calls # <<>>
    /\ calls[1].rpc = "returned"
    /\ Len(calls[1].list) = 3
    /\ calls[1].list[2].score = calls[1].list[3].score
    /\ calls[2].rpc = "while"
    /\ calls[2].list # get_zone_stats(db_trips)

----------------------------------------------------------------------------
(* Properties of the trip listing.                                         *)

\* the rows of the table that satisfy every equality filter the request
\* carries (a filter without a value counts as not supplied)
Filtered(args) ==
    LET Supplied(x) == x \notin {None, ""}
    IN  Select(db_trips,
               [k \in 1..Len(db_trips) |->
                   /\ Supplied(args.borough) =>
                         db_trips[k].pickup_borough = args.borough
                   /\ Supplied(args.time_of_day) =>
                         db_trips[k].time_of_day = args.time_of_day
                   /\ Supplied(args.day) =>
                         db_trips[k].day_of_week = args.day])

\* at most `limit` rows starting at `offset`: the rows after the first
\* `offset` ones, up to `limit` of them
PageOf(found, limit, offset) ==
    LET from == IF offset < 0 THEN 0 ELSE offset
        size == IF limit < 0 THEN 0 ELSE limit
        upto == IF from + size > Len(found) THEN Len(found) ELSE from + size
    IN  [k \in 1..(upto - from) |-> found[from + k]]

\* C19: a successful /api/trips response lists exactly the rows satisfying
\* the conjunction of the supplied filters, at most `limit` of them
\* starting at `offset`, and its total is the number of all rows
\* satisfying that conjunction.
ListingExact ==
    (trips_response # <<>> /\ trips_response[1].success) =>
        LET args  == trips_request[1]
            resp  == trips_response[1]
            found == Filtered(args)
            page  == PageOf(found, resp.limit, resp.offset)
        IN  /\ resp.total = Len(found)
            /\ resp.data = [k \in 1..Len(page) |-> Listed(page[k])]

\* the columns a raw trip record is read with
RawFields ==
    {"vendor_id", "pickup_datetime", "dropoff_datetime", "passenger_count",
     "trip_distance", "pickup_location_id", "dropoff_location_id",
     "fare_amount", "tip_amount"}

\* two rows of the cleaned output agree on every raw field
SameRawFields(r, s) == \A c \in RawFields : r[c] = s[c]

\* C21: the cleaned output holds no exact duplicates: no two of its rows
\* agree on every raw field, whatever the input (an input whose rows differ
\* only in passenger_count being missing in one and 1 in the other
\* included).
NoDuplicatesInOutput ==
    out_parquet # <<>> =>
        \A i, j \in 1..Len(out_parquet[1]) :
            i < j => ~SameRawFields(out_parquet[1][i], out_parquet[1][j])

====
